---------------------------- MODULE Spec2Model ----------------------------
(***************************************************************************)
(* The watch-dedup-process loop of hack_interview (main.go and its         *)
(* config.yml variant): watchDirectory lists the input directory, filters  *)
(* the entries, marks and dispatches each new image to processFile, which  *)
(* runs extractTextFromImage, getGeminiResponse and saveToMarkdown.        *)
(*                                                                         *)
(* Strings are sequences of one-character strings, so that                 *)
(* strings.HasSuffix, string concatenation and the byte order ReadDir      *)
(* sorts by are computed, not assumed.                                     *)
(***************************************************************************)
EXTENDS Integers, Sequences, FiniteSets, TLC

(***************************************************************************)
(* Bounds of the model.                                                    *)
(***************************************************************************)
\* The longest directory listing ReadDir returns.
MaxListing == 3
\* The dispatch counter saturates here (one above what at-most-once allows).
MaxCount == 2

(***************************************************************************)
(* Strings.                                                                *)
(***************************************************************************)
\* The byte value of the characters file names are written with.
Code(c) ==
    CASE c = "." -> 46
      [] c = "G" -> 71
      [] c = "N" -> 78
      [] c = "P" -> 80
      [] c = "X" -> 88
      [] c = "a" -> 97
      [] c = "b" -> 98
      [] c = "c" -> 99
      [] c = "d" -> 100
      [] c = "e" -> 101
      [] c = "g" -> 103
      [] c = "j" -> 106
      [] c = "n" -> 110
      [] c = "p" -> 112
      [] c = "t" -> 116
      [] c = "x" -> 120

\* Go's s < t on strings: bytewise lexicographic order.
RECURSIVE StrLess(_, _)
StrLess(s, t) ==
    IF t = <<>> THEN FALSE
    ELSE IF s = <<>> THEN TRUE
    ELSE IF Code(Head(s)) # Code(Head(t)) THEN Code(Head(s)) < Code(Head(t))
    ELSE StrLess(Tail(s), Tail(t))

\* strings.HasSuffix(s, suffix).
HasSuffix(s, suffix) ==
    /\ Len(s) >= Len(suffix)
    /\ SubSeq(s, Len(s) - Len(suffix) + 1, Len(s)) = suffix

SuffixPng  == <<".", "p", "n", "g">>
SuffixJpg  == <<".", "j", "p", "g">>
SuffixJpeg == <<".", "j", "p", "e", "g">>

(***************************************************************************)
(* The directory entries the model lists.                                  *)
(***************************************************************************)
NameA == <<"a", ".", "p", "n", "g">>
NameB == <<"b", ".", "t", "x", "t">>
NameC == <<"c", ".", "j", "p", "g">>
NameD == <<"d", ".", "j", "p", "e", "g">>
NameE == <<"e", ".", "p", "n", "g">>
NameX == <<"X", ".", "P", "N", "G">>

Names == {NameA, NameB, NameC, NameD, NameE, NameX}

\* os.FileInfo, as far as watchDirectory reads it: Name() and IsDir().
Entry(n, d) == [name |-> n, isDir |-> d]

Entries ==
    {Entry(NameA, FALSE), Entry(NameB, FALSE), Entry(NameC, FALSE),
     Entry(NameD, FALSE), Entry(NameX, FALSE), Entry(NameE, TRUE)}

\* ioutil.ReadDir sorts its result by file name. A name may come twice
\* when the directory is renamed into while it is being read.
IsSortedByName(s) ==
    \A i \in 1..(Len(s) - 1) : ~StrLess(s[i + 1].name, s[i].name)

Listings ==
    {s \in UNION {[1..k -> Entries] : k \in 0..MaxListing} : IsSortedByName(s)}


(***************************************************************************)
(* Values.  A call returns Ok(v) or Err(e), Go's (value, error) pair.      *)
(***************************************************************************)
Ok(v)  == [ok |-> TRUE, val |-> v]
Err(e) == [ok |-> FALSE, err |-> e]

\* Recognised texts: the empty string and a non-empty one.
TextEmpty == <<>>
TextQ     == <<"q">>
Texts     == {TextEmpty, TextQ}

\* Generated responses.
RespX  == <<"x">>
RespYZ == <<"y", "z">>
Responses == {RespX, RespYZ}

\* The longest JSON list (ParsedResults, parts) a response body carries.
MaxItems == 2

SeqsUpTo(S, n) == UNION {[1..k -> S] : k \in 0..n}

(***************************************************************************)
(* The HTTP transport (resty): Post returns an error when the request      *)
(* could not be carried out, and a response, whatever its status code,     *)
(* otherwise.                                                              *)
(***************************************************************************)
Statuses == {200, 500}
TransportErrors == {"network", "timeout"}

\* A body for json.Unmarshal into OCRResponse.  json is "invalid" for a body
\* that is not JSON, "null", "string" for JSON of another top-level type, and
\* "object"; the ParsedResults member is "absent", "null", "mistyped" (not a
\* list) or a "list" of items; an item is "mistyped" (not an object), or an
\* object whose ParsedText is absent ("no_text"), not a string
\* ("mistyped_text") or a string ("text").
OcrElements ==
    [kind : {"mistyped", "no_text", "mistyped_text"}, text : {TextEmpty}]
        \cup [kind : {"text"}, text : Texts]

OcrResults ==
    [kind : {"absent", "null", "mistyped"}, items : {<<>>}]
        \cup [kind : {"list"}, items : SeqsUpTo(OcrElements, MaxItems)]

OcrBodies ==
    [json : {"invalid", "null", "string"},
     results : {[kind |-> "absent", items |-> <<>>]}]
        \cup [json : {"object"}, results : OcrResults]

\* What the OCR request meets: the image cannot be read, the transport
\* fails, or a response arrives.
OcrInputs ==
    [kind : {"unreadable"}]
        \cup [kind : {"transport_error"}, err : TransportErrors]
        \cup [kind : {"response"}, status : Statuses, body : OcrBodies]

\* json.Unmarshal(resp.Body(), &ocrResp): the decoded ParsedResults (a list
\* of texts), or an error.
ElementMistyped(e) == e.kind \in {"mistyped", "mistyped_text"}

ElementText(e) == IF e.kind = "text" THEN e.text ELSE TextEmpty

UnmarshalOcr(body) ==
    IF body.json = "invalid" THEN Err("syntax")
    ELSE IF body.json = "string" THEN Err("type")
    ELSE IF body.json = "null" THEN Ok(<<>>)
    ELSE IF body.results.kind \in {"absent", "null"} THEN Ok(<<>>)
    ELSE IF body.results.kind = "mistyped" THEN Err("type")
    ELSE IF \E i \in DOMAIN body.results.items :
                ElementMistyped(body.results.items[i])
         THEN Err("type")
    ELSE Ok([i \in DOMAIN body.results.items |->
                 ElementText(body.results.items[i])])

\* encodeImageToBase64: ioutil.ReadFile fails or the bytes are encoded.
EncodeImageToBase64(in) ==
    IF in.kind = "unreadable" THEN Err("read") ELSE Ok("base64")

\* extractTextFromImage(imagePath).
ExtractTextFromImage(in) ==
    IF ~EncodeImageToBase64(in).ok THEN Err("read")
    ELSE IF in.kind = "transport_error" THEN Err(in.err)
    ELSE LET ocrResp == UnmarshalOcr(in.body)
         IN  IF ~ocrResp.ok THEN Err(ocrResp.err)
             ELSE IF Len(ocrResp.val) > 0 THEN Ok(ocrResp.val[1])
             ELSE Err("no text found in image")

(***************************************************************************)
(* getGeminiResponse.                                                      *)
(***************************************************************************)
\* A body for json.Unmarshal into GeminiResponse: json is "invalid",
\* "mistyped" or "object", with the list of candidates, each the list of its
\* parts' texts.
PartsLists == SeqsUpTo(Responses, MaxItems)

CandidateLists ==
    {<<>>} \cup {<<p>> : p \in PartsLists}
           \cup {<<p, <<RespX>>>> : p \in PartsLists}

GeminiBodies ==
    [json : {"invalid", "mistyped"}, candidates : {<<>>}]
        \cup [json : {"object"}, candidates : CandidateLists]

GeminiInputs ==
    [kind : {"transport_error"}, err : TransportErrors]
        \cup [kind : {"response"}, status : Statuses, body : GeminiBodies]

UnmarshalGemini(body) ==
    IF body.json = "invalid" THEN Err("syntax")
    ELSE IF body.json = "mistyped" THEN Err("type")
    ELSE Ok(body.candidates)

\* The instruction the extracted text is appended to (in the source a Russian
\* sentence ending in "GO:" and a line break).
PromptTemplate == <<"instruction GO:", "\n">>

BuildPrompt(text) == PromptTemplate \o text

\* getGeminiResponse(prompt): the answer depends on the service alone.
GetGeminiResponse(prompt, in) ==
    IF in.kind = "transport_error" THEN Err(in.err)
    ELSE LET geminiResp == UnmarshalGemini(in.body)
         IN  IF ~geminiResp.ok THEN Err(geminiResp.err)
             ELSE IF Len(geminiResp.val) > 0 /\ Len(geminiResp.val[1]) > 0
                  THEN Ok(geminiResp.val[1][1])
             ELSE Err("no response from Gemini API")

(***************************************************************************)
(* saveToMarkdown.                                                         *)
(***************************************************************************)
ResultName == <<"r", "e", "s", "u", "l", "t">>
MdSuffix   == <<".", "m", "d">>

\* filepath.Join(outputDir, filename+".md"), within the output directory.
OutputFilename(filename) == filename \o MdSuffix

\* ioutil.WriteFile opens the file truncating it, writes, and closes: it
\* fails before the file is touched, after n < len bytes went out, or at
\* the close.
WriteOutcomes(content) ==
    [kind : {"ok", "open_error", "close_error"}]
        \cup [kind : {"write_error"}, n : 0..(Len(content) - 1)]

\* The output directory, a map from file name to content, after WriteFile.
WriteFile(dir, fname, content, out) ==
    IF out.kind = "open_error" THEN dir
    ELSE IF out.kind = "write_error"
         THEN [f \in DOMAIN dir \cup {fname} |->
                   IF f = fname THEN SubSeq(content, 1, out.n) ELSE dir[f]]
    ELSE [f \in DOMAIN dir \cup {fname} |->
              IF f = fname THEN content ELSE dir[f]]

WriteError(out) == out.kind # "ok"

\* Variant: the name of the image without its extension, as in
\* strings.TrimSuffix(filepath.Base(imagePath), filepath.Ext(imagePath)).
ArtifactNamePerSource(imageName) ==
    LET dots == {i \in DOMAIN imageName : imageName[i] = "."}
        last == CHOOSE i \in dots : \A j \in dots : j <= i
    IN  IF dots = {} THEN imageName ELSE SubSeq(imageName, 1, last - 1)

\* The name processFile saves under.
ArtifactName(imageName) == ResultName


(***************************************************************************)
(* The state of the process.                                               *)
(***************************************************************************)
VARIABLES
    pc,              \* where the process is: "list", "scan", "extract",
                     \* "generate", "persist", "sleep", or "fatal" (exited)
    files,           \* watchDirectory: the listing of this cycle
    idx,             \* watchDirectory: the entry the range loop is at
    listErr,         \* watchDirectory: whether the last ReadDir failed
    processedFiles,  \* the names mapped to true in processedFiles
    cur,             \* processFile: the file it was called for
    text,            \* processFile: the extracted text
    prompt,          \* processFile: the prompt handed to getGeminiResponse
    response,        \* processFile: the generated response
    output,          \* the output directory: file name -> content
    trace,           \* history: per name, the stages run and their outcome
    dispatchCount,   \* history: per name, the calls of processFile
    log,             \* history: per name, the lines processFile put out
    variant,         \* which of the two programs runs: "main.go" or
                     \* "part_000" (the one configured by config.yml)
    startOutput,     \* history: the output directory when processFile was
                     \* called
    lastWritten,     \* history: the output directory as the writes that
                     \* succeeded alone would have left it
    restarts,        \* history: how often the process has been started again
    prevRun,         \* history: per name, what the process before this one
                     \* did with it
    listed,          \* history: a listing has been taken
    rescanned,       \* history: a second listing has been taken
    stableDir,       \* the directory, when nothing ever changes in it
    ocrIn, ocrOut    \* the argument and result of extractTextFromImage
                     \* when it is applied on its own

vars ==
    <<pc, files, idx, listErr, processedFiles, cur, text, prompt, response,
      output, trace, dispatchCount, log, variant, startOutput,
      lastWritten, restarts, prevRun, listed, rescanned, stableDir, ocrIn, ocrOut>>

loopVars    == <<files, idx, listErr>>
localVars   == <<cur, text, prompt, response, startOutput>>
scanHistory == <<listed, rescanned>>
harnessVars == <<stableDir, ocrIn, ocrOut>>
processVars == <<variant, restarts, prevRun>>
writeHistory == <<lastWritten>>

NoFile == <<>>
NoInput == [kind |-> "none"]
NotApplied == Err("not applied")
NoText == <<>>

Min(a, b) == IF a < b THEN a ELSE b

\* The state before main calls watchDirectory.
Init ==
    /\ pc = "list"
    /\ files = <<>>
    /\ idx = 1
    /\ listErr = FALSE
    /\ processedFiles = {}
    /\ cur = NoFile
    /\ text = NoText
    /\ prompt = NoText
    /\ response = NoText
    /\ output = <<>>
    /\ trace = [n \in Names |-> <<>>]
    /\ dispatchCount = [n \in Names |-> 0]
    /\ log = [n \in Names |-> <<>>]
    /\ variant = "main.go"
    /\ startOutput = <<>>
    /\ lastWritten = <<>>
    /\ restarts = 0
    /\ prevRun = [n \in Names |-> "none"]
    /\ listed = FALSE
    /\ rescanned = FALSE
    /\ stableDir = <<>>
    /\ ocrIn = NoInput
    /\ ocrOut = NotApplied

(***************************************************************************)
(* watchDirectory.                                                         *)
(***************************************************************************)
\* Lower case of the letters file names are written with.
ToLower(c) ==
    CASE c = "G" -> "g"
      [] c = "N" -> "n"
      [] c = "P" -> "p"
      [] c = "X" -> "x"
      [] OTHER -> c

\* Variant: the suffix test after strings.ToLower.
IsImageAnyCase(name) ==
    LET lower == [i \in DOMAIN name |-> ToLower(name[i])]
    IN  \/ HasSuffix(lower, SuffixPng)
        \/ HasSuffix(lower, SuffixJpg)
        \/ HasSuffix(lower, SuffixJpeg)

\* The suffix test of the filter.
IsImage(name) ==
    \/ HasSuffix(name, SuffixPng)
    \/ HasSuffix(name, SuffixJpg)
    \/ HasSuffix(name, SuffixJpeg)

\* Variant: the filter without the look-up in processedFiles.
ShouldProcessNoDedup(file, processed) ==
    /\ ~file.isDir
    /\ IsImage(file.name)

\* Variant: a file whose pipeline failed is taken again.
ShouldProcessRetry(file, processed) ==
    /\ ~file.isDir
    /\ IsImage(file.name)
    /\ \/ file.name \notin processed
       \/ \E i \in DOMAIN trace[file.name] : ~trace[file.name][i].ok

\* The filter: a new file that is an image.
ShouldProcess(file, processed) ==
    /\ ~file.isDir
    /\ file.name \notin processed
    /\ IsImage(file.name)

\* Variant: the assignment to processedFiles left out.
MarkProcessedNoop(processed, name) == processed

\* Variant: the map keyed by the path handed to processFile, not the name.
MarkProcessedByPath(processed, name) ==
    processed \cup {<<"inputDir", "/">> \o name}

\* Variant: the map made anew for each file, earlier marks lost.
MarkProcessedOnly(processed, name) == {name}

\* Variant: every entry of the listing marked, whatever the filter says.
MarkProcessedListed(processed, name) ==
    processed \cup {files[i].name : i \in DOMAIN files}

\* processedFiles[file.Name()] = true
MarkProcessed(processed, name) == processed \cup {name}

\* Variant: the listing error logged, the loop going on to the sleep.
AfterListErrorContinue == "sleep"

\* Where the process goes when ReadDir fails: log.Fatalf exits.
AfterListError == "fatal"

\* Variant: a failed stage ends the process, as log.Fatalf would.
AfterStageErrorFatal == "fatal"

\* Variant: a failed stage breaks out of the range loop.
AfterStageErrorBreak == "sleep"

\* Where the process goes when a stage of processFile fails: log.Printf and
\* return, back into the range loop.
AfterStageError == "scan"

\* The lines processFile and saveToMarkdown put out (here in English).
LineStart     == "processing file"
LineOcrError  == "OCR error"
LineGenError  == "Gemini API error"
LineSaveError == "file save error"
LineSaved     == "file saved"

\* ioutil.ReadDir succeeds with a listing.
ReadDirOk ==
    /\ pc = "list"
    /\ \E l \in Listings : files' = l
    /\ idx' = 1
    /\ listErr' = FALSE
    /\ listed' = TRUE
    /\ rescanned' = listed
    /\ pc' = "scan"
    /\ UNCHANGED <<processedFiles, localVars, output, trace, dispatchCount,
                   log, harnessVars, processVars, writeHistory>>

\* ioutil.ReadDir fails.
ReadDirFail ==
    /\ pc = "list"
    /\ listErr' = TRUE
    /\ pc' = AfterListError
    /\ UNCHANGED <<files, idx, processedFiles, localVars, output, trace,
                   dispatchCount, log, scanHistory, harnessVars, processVars, writeHistory>>

\* The range loop passes an entry the filter rejects.
Skip ==
    /\ pc = "scan"
    /\ idx <= Len(files)
    /\ ~ShouldProcess(files[idx], processedFiles)
    /\ idx' = idx + 1
    /\ UNCHANGED <<pc, files, listErr, processedFiles, localVars, output,
                   trace, dispatchCount, log, scanHistory, harnessVars,
                   processVars, writeHistory>>

\* Variant: go processFile(...), the range loop goes on at once.
AfterDispatchAsync == "scan"

\* processFile(filepath.Join(inputDir, file.Name())): the loop waits for it.
AfterDispatch == "extract"

\* The range loop marks an entry the filter accepts and calls processFile.
Dispatch ==
    /\ pc = "scan"
    /\ idx <= Len(files)
    /\ ShouldProcess(files[idx], processedFiles)
    /\ processedFiles' = MarkProcessed(processedFiles, files[idx].name)
    /\ cur' = files[idx].name
    /\ dispatchCount' =
           [dispatchCount EXCEPT ![files[idx].name] = Min(@ + 1, MaxCount)]
    /\ log' = [log EXCEPT ![files[idx].name] = Append(@, LineStart)]
    /\ startOutput' = output
    /\ pc' = AfterDispatch
    /\ UNCHANGED <<loopVars, text, prompt, response, output, trace,
                   scanHistory, harnessVars, processVars, writeHistory>>

\* Variant: no enclosing for loop, watchDirectory returns after one pass.
AfterScanExit == "fatal"

\* After the range loop: time.Sleep(100 * time.Millisecond).
AfterScan == "sleep"

\* After the sleep: the next iteration of for { ... }.
AfterSleep == "list"

\* The range loop is over: time.Sleep.  The listing, declared in the body
\* of the for loop, is gone.
EndScan ==
    /\ pc = "scan"
    /\ idx > Len(files)
    /\ pc' = AfterScan
    /\ files' = <<>>
    /\ idx' = 1
    /\ UNCHANGED <<listErr, processedFiles, localVars, output, trace,
                   dispatchCount, log, scanHistory, harnessVars, processVars, writeHistory>>

\* The sleep is over: the next cycle.
Wake ==
    /\ pc = "sleep"
    /\ pc' = AfterSleep
    /\ UNCHANGED <<loopVars, processedFiles, localVars, output, trace,
                   dispatchCount, log, scanHistory, harnessVars, processVars, writeHistory>>

(***************************************************************************)
(* processFile.                                                            *)
(***************************************************************************)
Event(stage, ok) == [stage |-> stage, ok |-> ok]

\* processFile returns: the range loop goes on with the next entry.
Return(to) ==
    /\ pc' = to
    /\ idx' = IF to = "scan" THEN idx + 1 ELSE idx
    /\ cur' = NoFile
    /\ text' = NoText
    /\ prompt' = NoText
    /\ response' = NoText
    /\ startOutput' = <<>>

\* Variant: the return after the OCR error left out.
AfterExtractNoReturn(res) == "generate"

\* Variant: an empty text taken as a failure of the extraction.
AfterExtractSkipEmpty(res) ==
    IF res.ok /\ res.val # <<>> THEN "generate" ELSE AfterStageError

\* What follows extractTextFromImage.
AfterExtract(res) == IF res.ok THEN "generate" ELSE AfterStageError

\* Variant: the return after the Gemini error left out.
AfterGenerateNoReturn(res) == "persist"

\* What follows getGeminiResponse.
AfterGenerate(res) == IF res.ok THEN "persist" ELSE AfterStageError

\* What follows saveToMarkdown: processFile returns either way.
AfterPersist(failed) == "scan"

\* The line after extractTextFromImage: log.Printf on an error.
ExtractLog(res) == IF res.ok THEN <<>> ELSE <<LineOcrError>>

\* The line after getGeminiResponse: log.Printf on an error.
GenerateLog(res) == IF res.ok THEN <<>> ELSE <<LineGenError>>

\* The line of saveToMarkdown itself: fmt.Println once the file is written.
SaveLog(out) == IF WriteError(out) THEN <<>> ELSE <<LineSaved>>

\* main.go, after saveToMarkdown: log.Printf on an error.
PersistLogMain(failed) == IF failed THEN <<LineSaveError>> ELSE <<>>

\* part_000, after saveToMarkdown: the error is dropped.
PersistLogYaml(failed) == <<>>

PersistLog(failed) ==
    IF variant = "main.go" THEN PersistLogMain(failed)
    ELSE PersistLogYaml(failed)

\* text, err := extractTextFromImage(imagePath), the OCR request meeting
\* one of inputs.
ExtractStep(inputs) ==
    /\ pc = "extract"
    /\ \E res \in {ExtractTextFromImage(in) : in \in inputs} :
        LET to == AfterExtract(res)
        IN  /\ trace' = [trace EXCEPT ![cur] = Append(@, Event("extract", res.ok))]
            /\ log' = [log EXCEPT ![cur] = @ \o ExtractLog(res)]
            /\ IF to = "generate"
               THEN /\ pc' = to
                    /\ text' = IF res.ok THEN res.val ELSE NoText
                    /\ UNCHANGED <<idx, cur, prompt, response, startOutput>>
               ELSE Return(to)
    /\ UNCHANGED <<files, listErr, processedFiles, output, dispatchCount,
                   scanHistory, processVars, writeHistory>>

Extract ==
    /\ ExtractStep(OcrInputs)
    /\ UNCHANGED harnessVars

\* response, err := getGeminiResponse(prompt)
Generate ==
    /\ pc = "generate"
    /\ \E res \in {GetGeminiResponse(BuildPrompt(text), in) :
                        in \in GeminiInputs} :
        LET to == AfterGenerate(res)
        IN  /\ trace' = [trace EXCEPT ![cur] = Append(@, Event("generate", res.ok))]
            /\ log' = [log EXCEPT ![cur] = @ \o GenerateLog(res)]
            /\ IF to = "persist"
               THEN /\ pc' = to
                    /\ prompt' = BuildPrompt(text)
                    /\ response' = IF res.ok THEN res.val ELSE NoText
                    /\ UNCHANGED <<idx, cur, text, startOutput>>
               ELSE Return(to)
    /\ UNCHANGED <<files, listErr, processedFiles, output, dispatchCount,
                   scanHistory, harnessVars, processVars, writeHistory>>

\* saveToMarkdown(filename, content)
SaveToMarkdown(dir, filename, content, out) ==
    WriteFile(dir, OutputFilename(filename), content, out)

\* err = saveToMarkdown("result", response)
Persist ==
    /\ pc = "persist"
    /\ \E out \in WriteOutcomes(response) :
        /\ output' = SaveToMarkdown(output, ArtifactName(cur), response, out)
        /\ trace' = [trace EXCEPT
                         ![cur] = Append(@, Event("persist", ~WriteError(out)))]
        /\ log' = [log EXCEPT
                       ![cur] = @ \o SaveLog(out) \o PersistLog(WriteError(out))]
        /\ lastWritten' =
               IF WriteError(out) THEN lastWritten
               ELSE SaveToMarkdown(lastWritten, ArtifactName(cur), response, out)
        /\ Return(AfterPersist(WriteError(out)))
    /\ UNCHANGED <<files, listErr, processedFiles, dispatchCount, scanHistory,
                   harnessVars, processVars>>

Next ==
    \/ ReadDirOk
    \/ ReadDirFail
    \/ Skip
    \/ Dispatch
    \/ EndScan
    \/ Wake
    \/ Extract
    \/ Generate
    \/ Persist

Spec == Init /\ [][Next]_vars

(***************************************************************************)
(* The program configured by config.yml (part_000): the same loop and      *)
(* pipeline; processFile drops the error of saveToMarkdown.                *)
(***************************************************************************)
InitYaml ==
    /\ pc = "list"
    /\ files = <<>>
    /\ idx = 1
    /\ listErr = FALSE
    /\ processedFiles = {}
    /\ cur = NoFile
    /\ text = NoText
    /\ prompt = NoText
    /\ response = NoText
    /\ output = <<>>
    /\ trace = [n \in Names |-> <<>>]
    /\ dispatchCount = [n \in Names |-> 0]
    /\ log = [n \in Names |-> <<>>]
    /\ variant = "part_000"
    /\ startOutput = <<>>
    /\ lastWritten = <<>>
    /\ restarts = 0
    /\ prevRun = [n \in Names |-> "none"]
    /\ listed = FALSE
    /\ rescanned = FALSE
    /\ stableDir = <<>>
    /\ ocrIn = NoInput
    /\ ocrOut = NotApplied

SpecYaml == InitYaml /\ [][Next]_vars

(***************************************************************************)
(* The same process over a directory in which nothing ever changes: every  *)
(* listing that succeeds is the same.                                      *)
(***************************************************************************)
InitStable ==
    /\ pc = "list"
    /\ files = <<>>
    /\ idx = 1
    /\ listErr = FALSE
    /\ processedFiles = {}
    /\ cur = NoFile
    /\ text = NoText
    /\ prompt = NoText
    /\ response = NoText
    /\ output = <<>>
    /\ trace = [n \in Names |-> <<>>]
    /\ dispatchCount = [n \in Names |-> 0]
    /\ log = [n \in Names |-> <<>>]
    /\ variant = "main.go"
    /\ startOutput = <<>>
    /\ lastWritten = <<>>
    /\ restarts = 0
    /\ prevRun = [n \in Names |-> "none"]
    /\ listed = FALSE
    /\ rescanned = FALSE
    /\ stableDir \in Listings
    /\ ocrIn = NoInput
    /\ ocrOut = NotApplied

ReadDirStable ==
    /\ pc = "list"
    /\ files' = stableDir
    /\ idx' = 1
    /\ listErr' = FALSE
    /\ listed' = TRUE
    /\ rescanned' = listed
    /\ pc' = "scan"
    /\ UNCHANGED <<processedFiles, localVars, output, trace, dispatchCount,
                   log, harnessVars, processVars, writeHistory>>

NextStable ==
    \/ ReadDirStable
    \/ ReadDirFail
    \/ Skip
    \/ Dispatch
    \/ EndScan
    \/ Wake
    \/ Extract
    \/ Generate
    \/ Persist

SpecStable == InitStable /\ [][NextStable]_vars

\* The process is one goroutine and nothing else runs: as long as it has
\* not exited it takes its next step, every call returning.
SpecStableFair == SpecStable /\ WF_vars(NextStable)

(***************************************************************************)
(* The process has ended (log.Fatalf after a listing error, or stopped from *)
(* outside while it sleeps) and is started again over the same directory.  *)
(* The output directory is on disk; everything else is the memory of the   *)
(* process.                                                                *)
(***************************************************************************)
MaxRestarts == 1

\* What a process did with n, seen when it ends.
RunOutcome(n) ==
    IF n \notin processedFiles THEN "none"
    ELSE IF \E i \in DOMAIN trace[n] : trace[n][i].ok = FALSE THEN "failed"
    ELSE "succeeded"

\* Variant: the map is reloaded from what the process before had marked.
ProcessStartMapReloaded(previous) == previous

\* var processedFiles = make(map[string]bool)
ProcessStartMap(previous) == {}

Restart ==
    /\ pc \in {"fatal", "sleep"}
    /\ restarts < MaxRestarts
    /\ restarts' = restarts + 1
    /\ prevRun' = [n \in Names |-> RunOutcome(n)]
    /\ processedFiles' = ProcessStartMap(processedFiles)
    /\ pc' = "list"
    /\ files' = <<>>
    /\ idx' = 1
    /\ listErr' = FALSE
    /\ cur' = NoFile
    /\ text' = NoText
    /\ prompt' = NoText
    /\ response' = NoText
    /\ startOutput' = <<>>
    /\ trace' = [n \in Names |-> <<>>]
    /\ dispatchCount' = [n \in Names |-> 0]
    /\ log' = [n \in Names |-> <<>>]
    /\ listed' = FALSE
    /\ rescanned' = FALSE
    /\ UNCHANGED <<output, variant, harnessVars, writeHistory>>

NextRestart ==
    \/ NextStable
    \/ Restart

SpecRestart == InitStable /\ [][NextRestart]_vars

(***************************************************************************)
(* The process over a directory that holds one image, the OCR service      *)
(* giving one known answer: what extractTextFromImage returns is set       *)
(* beside what processFile does with it.                                   *)
(***************************************************************************)
InitRun ==
    /\ pc = "list"
    /\ files = <<>>
    /\ idx = 1
    /\ listErr = FALSE
    /\ processedFiles = {}
    /\ cur = NoFile
    /\ text = NoText
    /\ prompt = NoText
    /\ response = NoText
    /\ output = <<>>
    /\ trace = [n \in Names |-> <<>>]
    /\ dispatchCount = [n \in Names |-> 0]
    /\ log = [n \in Names |-> <<>>]
    /\ variant = "main.go"
    /\ startOutput = <<>>
    /\ lastWritten = <<>>
    /\ restarts = 0
    /\ prevRun = [n \in Names |-> "none"]
    /\ listed = FALSE
    /\ rescanned = FALSE
    /\ stableDir = <<Entry(NameA, FALSE)>>
    /\ ocrIn \in OcrInputs
    /\ ocrOut = NotApplied

ExtractGiven ==
    /\ ExtractStep({ocrIn})
    /\ ocrOut' = ExtractTextFromImage(ocrIn)
    /\ UNCHANGED <<stableDir, ocrIn>>

NextRun ==
    \/ ReadDirStable
    \/ ReadDirFail
    \/ Skip
    \/ Dispatch
    \/ EndScan
    \/ Wake
    \/ ExtractGiven
    \/ Generate
    \/ Persist

SpecRun == InitRun /\ [][NextRun]_vars

(***************************************************************************)
(* extractTextFromImage applied on its own to every input.                 *)
(***************************************************************************)
InitExtract ==
    /\ pc = "call"
    /\ files = <<>>
    /\ idx = 1
    /\ listErr = FALSE
    /\ processedFiles = {}
    /\ cur = NoFile
    /\ text = NoText
    /\ prompt = NoText
    /\ response = NoText
    /\ output = <<>>
    /\ trace = [n \in Names |-> <<>>]
    /\ dispatchCount = [n \in Names |-> 0]
    /\ log = [n \in Names |-> <<>>]
    /\ variant = "main.go"
    /\ startOutput = <<>>
    /\ lastWritten = <<>>
    /\ restarts = 0
    /\ prevRun = [n \in Names |-> "none"]
    /\ listed = FALSE
    /\ rescanned = FALSE
    /\ stableDir = <<>>
    /\ ocrIn \in OcrInputs
    /\ ocrOut = NotApplied

CallExtract ==
    /\ pc = "call"
    /\ ocrOut' = ExtractTextFromImage(ocrIn)
    /\ pc' = "returned"
    /\ UNCHANGED <<loopVars, processedFiles, localVars, output, trace,
                   dispatchCount, log, scanHistory, stableDir, ocrIn,
                   processVars, writeHistory>>

NextExtract == CallExtract

SpecExtract == InitExtract /\ [][NextExtract]_vars


(***************************************************************************)
(* Properties.                                                             *)
(***************************************************************************)
\* s ends in suf, said without strings.HasSuffix.
EndsIn(s, suf) == \E k \in 0..Len(s) : s = SubSeq(s, 1, k) \o suf

\* An eligible entry: not a directory, the name ending in .png, .jpg or
\* .jpeg.
EligibleEntry(e) ==
    /\ e.isDir = FALSE
    /\ \/ EndsIn(e.name, <<".", "p", "n", "g">>)
       \/ EndsIn(e.name, <<".", "j", "p", "g">>)
       \/ EndsIn(e.name, <<".", "j", "p", "e", "g">>)

\* n is the name of an eligible entry among the first k entries of l.
EligibleAmong(l, k, n) ==
    \E i \in 1..Min(k, Len(l)) : l[i].name = n /\ EligibleEntry(l[i])

\* The range loop has passed every entry of the listing.
ListingExhausted == pc = "scan" /\ idx > Len(files)

\* The first scan cycle has run to its end.
FirstCycleOver ==
    /\ listed
    /\ rescanned \/ pc \in {"sleep", "list", "fatal"} \/ ListingExhausted

\* C1 (SpecStable): over a directory listing that never changes, no name is
\* dispatched to processFile twice, and from the end of the first scan cycle
\* on each eligible file of the listing has been dispatched exactly once and
\* every other name not at all: once in the first cycle, never again later.
C1_DedupIdempotence ==
    \A n \in Names :
        /\ dispatchCount[n] <= 1
        /\ FirstCycleOver =>
              dispatchCount[n] =
                  IF EligibleAmong(stableDir, Len(stableDir), n) THEN 1 ELSE 0

\* A later cycle over the same listing of several eligible files has run to
\* its end, and each still counts one dispatch.
C1_Witness ==
    /\ rescanned
    /\ ListingExhausted
    /\ files = stableDir
    /\ \E n, m \in Names :
        /\ n # m
        /\ EligibleAmong(files, Len(files), n)
        /\ EligibleAmong(files, Len(files), m)
        /\ dispatchCount[n] = 1
        /\ dispatchCount[m] = 1

\* C2 (Spec): whatever the listings are, processFile is started at most once
\* per name; when a scan has passed a listing, each eligible name in it,
\* even one listed twice, counts exactly one dispatch, and a name such as
\* b.txt none.
C2_AtMostOncePerName ==
    /\ \A n \in Names : dispatchCount[n] <= 1
    /\ dispatchCount[NameB] = 0
    /\ pc = "scan" =>
          \A n \in Names :
              EligibleAmong(files, idx - 1, n) => dispatchCount[n] = 1

\* A later listing a.png, a.png, b.txt has been passed: one dispatch of
\* a.png, none of b.txt.
C2_Witness ==
    /\ rescanned
    /\ ListingExhausted
    /\ files = <<Entry(NameA, FALSE), Entry(NameA, FALSE), Entry(NameB, FALSE)>>
    /\ dispatchCount[NameA] = 1
    /\ dispatchCount[NameB] = 0


\* The events of a trace.
ExtractOk   == [stage |-> "extract", ok |-> TRUE]
ExtractErr  == [stage |-> "extract", ok |-> FALSE]
GenerateOk  == [stage |-> "generate", ok |-> TRUE]
GenerateErr == [stage |-> "generate", ok |-> FALSE]
PersistOk   == [stage |-> "persist", ok |-> TRUE]
PersistErr  == [stage |-> "persist", ok |-> FALSE]

\* The pipeline of n has failed at some stage.
PipelineFailed(n) == \E i \in DOMAIN trace[n] : trace[n][i].ok = FALSE

\* processFile is running.
InPipeline == pc \in {"extract", "generate", "persist"}

\* This step is a stage of the pipeline of n ending, with the outcome ok.
StageEnds(n, stage, ok) ==
    /\ Len(trace'[n]) = Len(trace[n]) + 1
    /\ trace'[n][Len(trace'[n])] = [stage |-> stage, ok |-> ok]

\* This step is a stage of some pipeline failing.
StageFails ==
    \E n \in Names : \E stage \in {"extract", "generate", "persist"} :
        StageEnds(n, stage, FALSE)

\* This step starts processFile for n.
Dispatches(n) == dispatchCount'[n] # dispatchCount[n]

\* Every eligible entry the range loop has reached has been dispatched,
\* whatever failed before it.
ReachedAreDispatched ==
    /\ pc = "scan" =>
          \A n \in Names :
              EligibleAmong(files, idx - 1, n) => dispatchCount[n] >= 1
    /\ InPipeline =>
          \A n \in Names :
              EligibleAmong(files, idx, n) => dispatchCount[n] >= 1

\* C3 (Spec): a failing stage of processFile (extraction, generation or
\* persistence) ends neither the scan cycle nor the process: the step that
\* fails hands control back to the range loop at the next entry of the same
\* listing, and every eligible entry the loop has reached, in this or a
\* later cycle, has been dispatched whatever failed before it.
C3_Isolation ==
    /\ []ReachedAreDispatched
    /\ [][StageFails =>
             /\ pc' = "scan"
             /\ files' = files
             /\ idx' = idx + 1
             /\ processedFiles' = processedFiles]_vars

\* The pipeline of a.png failed, and c.jpg, later in the same listing, has
\* been dispatched and is being processed.
C3_Witness ==
    /\ files = <<Entry(NameA, FALSE), Entry(NameC, FALSE)>>
    /\ idx = 2
    /\ PipelineFailed(NameA)
    /\ cur = NameC
    /\ pc = "generate"

\* C4 (Spec): processFile is never started for a listed entry that is a
\* directory or whose name does not end, letter case included, in .png, .jpg
\* or .jpeg: each start is for the entry the range loop is at, and that
\* entry is eligible; X.PNG, b.txt and the directory e.png never count a
\* dispatch, never have a stage run and never enter processedFiles.
C4_EligibilityFilter ==
    /\ [](\A n \in {NameB, NameE, NameX} :
              /\ dispatchCount[n] = 0
              /\ trace[n] = <<>>
              /\ cur # n
              /\ n \notin processedFiles)
    /\ [][\A n \in Names :
              Dispatches(n) =>
                  /\ pc = "scan"
                  /\ idx <= Len(files)
                  /\ files[idx].name = n
                  /\ EligibleEntry(files[idx])]_vars

\* With a name already in processedFiles, the range loop has passed X.PNG,
\* b.txt and the directory e.png without dispatching them.
C4_Witness ==
    /\ processedFiles # {}
    /\ ListingExhausted
    /\ files = <<Entry(NameX, FALSE), Entry(NameB, FALSE), Entry(NameE, TRUE)>>
    /\ dispatchCount[NameX] = 0
    /\ dispatchCount[NameB] = 0
    /\ dispatchCount[NameE] = 0

\* C5 (Spec): a failure of extractTextFromImage or getGeminiResponse never
\* ends the watch loop (the failing step leaves the process in the range
\* loop, not exited), whereas a failed ReadDir ends the process: whenever
\* the last listing failed the process has exited, and once exited it takes
\* no further step (no listing, dispatch or write).
C5_FatalBoundary ==
    /\ [](listErr => pc = "fatal")
    /\ [](pc = "fatal" => listErr)
    /\ [][pc # "fatal"]_vars
    /\ [][(\E n \in Names : \E stage \in {"extract", "generate"} :
               StageEnds(n, stage, FALSE))
             => pc' = "scan" /\ listErr' = FALSE]_vars

\* A listing failed and the process has exited, after an extraction failure
\* and a generation failure that did not end it.
C5_Witness ==
    /\ pc = "fatal"
    /\ listErr
    /\ \E n, m \in Names :
        /\ trace[n] = <<ExtractErr>>
        /\ trace[m] = <<ExtractOk, GenerateErr>>


\* The stages in the order of the pipeline.
StageOrder == <<"extract", "generate", "persist">>

\* The stages of t are the first stages of the pipeline, in order, and each
\* but the last recorded one succeeded.
Gated(t) ==
    /\ Len(t) <= Len(StageOrder)
    /\ \A i \in DOMAIN t : t[i].stage = StageOrder[i]
    /\ \A i \in DOMAIN t : i < Len(t) => t[i].ok

\* C6 (Spec): within a run of processFile the stages come in the order
\* extract, generate, persist, and a stage runs only if every earlier one
\* succeeded: after a failed extraction neither generation nor the write is
\* ever recorded for that file, after a failed generation no write; the run
\* is at generation only after a successful extraction and at the write only
\* after a successful generation.
C6_StageGating ==
    /\ \A n \in Names : Gated(trace[n])
    /\ pc = "extract" => trace[cur] = <<>>
    /\ pc = "generate" => trace[cur] = <<ExtractOk>>
    /\ pc = "persist" => trace[cur] = <<ExtractOk, GenerateOk>>
    /\ ~InPipeline =>
          \A n \in Names :
              \/ trace[n] = <<>>
              \/ Len(trace[n]) = Len(StageOrder)
              \/ trace[n][Len(trace[n])].ok = FALSE

\* One file stopped at a failed extraction, one at a failed generation, a
\* third went through all three stages, and the loop has gone on.
C6_Witness ==
    /\ pc = "scan"
    /\ \E n, m, k \in Names :
        /\ trace[n] = <<ExtractErr>>
        /\ trace[m] = <<ExtractOk, GenerateErr>>
        /\ Len(trace[k]) = 3

\* C7 (Spec): a name is in processedFiles before processFile begins for it:
\* whenever processFile is running for a file, has run a stage for it, or
\* was started for it, the file is marked, and the first stage has not run
\* when the run is at extraction; no name counts two dispatches, though the
\* pipeline of a marked file may not have completed.
C7_MarkBeforePipeline ==
    /\ \A n \in Names :
          (cur = n \/ trace[n] # <<>> \/ dispatchCount[n] >= 1)
              => (n \in processedFiles /\ dispatchCount[n] = 1)
    /\ InPipeline => cur \in processedFiles
    /\ pc = "extract" => trace[cur] = <<>>

\* processFile has just been called for a file, marked already with no
\* stage run, while another marked file never completed its pipeline.
C7_Witness ==
    /\ pc = "extract"
    /\ cur \in processedFiles
    /\ trace[cur] = <<>>
    /\ \E m \in processedFiles : PipelineFailed(m)

\* No stage is recorded twice for n.
NoStageTwice(n) ==
    \A i, j \in DOMAIN trace[n] :
        i # j => trace[n][i].stage # trace[n][j].stage

\* C8 (Spec): a file whose pipeline failed at any stage stays marked in
\* processedFiles and is never dispatched again: it counts one dispatch in
\* every later state, no step un-marks it, dispatches it or runs a stage
\* for it again, even when a later listing still holds it; and no stage is
\* recorded more than once for any file.
C8_NoRetry ==
    /\ [](\A n \in Names :
              /\ NoStageTwice(n)
              /\ PipelineFailed(n) =>
                    (n \in processedFiles /\ dispatchCount[n] = 1))
    /\ [][\A n \in Names :
              PipelineFailed(n) =>
                  /\ n \in processedFiles'
                  /\ dispatchCount'[n] = dispatchCount[n]
                  /\ trace'[n] = trace[n]]_vars

\* A new cycle lists a.png, whose extraction failed in an earlier cycle; the
\* range loop is at it and can only pass it.
C8_Witness ==
    /\ rescanned
    /\ pc = "scan"
    /\ idx = 1
    /\ files = <<Entry(NameA, FALSE)>>
    /\ trace[NameA] = <<ExtractErr>>
    /\ NameA \in processedFiles

\* <outputDir>/result.md.
ResultFile == <<"r", "e", "s", "u", "l", "t", ".", "m", "d">>

\* This step is saveToMarkdown ending, with the outcome ok.
PersistEnds(ok) == pc = "persist" /\ StageEnds(cur, "persist", ok)

\* s is the first part, or the whole, of t.
IsPrefix(s, t) == Len(s) <= Len(t) /\ s = SubSeq(t, 1, Len(s))

\* The write of some run has succeeded.
SomeWriteSucceeded ==
    \E n \in Names : \E i \in DOMAIN trace[n] : trace[n][i] = PersistOk

\* C9 as stated (Spec): a successful write leaves result.md, the only
\* artifact, holding exactly the response of that run, and once a write has
\* succeeded no other step changes the output; so after any sequence of runs
\* the artifact holds exactly the response of the most recent run whose
\* write succeeded.
C9_AsStated ==
    [][/\ PersistEnds(TRUE) => output' = [f \in {ResultFile} |-> response]
       /\ (SomeWriteSucceeded /\ ~PersistEnds(TRUE)) => output' = output]_vars

\* C9 amended (Spec): result.md is the only artifact; a successful write
\* leaves it holding exactly the response of that run and nothing of an
\* earlier one; a failed write leaves it unchanged, or (ioutil.WriteFile
\* truncates the file before it writes) holding a first part or the whole
\* of the new response; no other step changes the output.
C9_Overwrite ==
    /\ [](DOMAIN output \subseteq {ResultFile})
    /\ [][/\ PersistEnds(TRUE) => output' = [f \in {ResultFile} |-> response]
          /\ PersistEnds(FALSE) =>
                \/ output' = output
                \/ /\ DOMAIN output' = {ResultFile}
                   /\ IsPrefix(output'[ResultFile], response)
          /\ ~(PersistEnds(TRUE) \/ PersistEnds(FALSE)) => output' = output]_vars

\* After a run whose write succeeded, with no write failed so far, the
\* artifact holds one response and the next run is about to write another.
C9_Witness ==
    /\ pc = "persist"
    /\ response = RespX
    /\ DOMAIN output = {ResultFile}
    /\ output[ResultFile] = RespYZ
    /\ \E n \in Names : trace[n] = <<ExtractOk, GenerateOk, PersistOk>>
    /\ \A n \in Names : \A i \in DOMAIN trace[n] : trace[n][i] # PersistErr

\* The response could not be parsed as an OCRResponse.
Unparseable(body) ==
    \/ body.json \in {"invalid", "string"}
    \/ /\ body.json = "object"
       /\ \/ body.results.kind = "mistyped"
          \/ \E i \in DOMAIN body.results.items :
                 body.results.items[i].kind \in {"mistyped", "mistyped_text"}

\* The response holds no parsed entry.
ZeroEntries(body) ==
    \/ body.json = "null"
    \/ body.json = "object" /\ body.results.items = <<>>

\* The cases in which extractTextFromImage is to fail.
MustFail(in) ==
    \/ in.kind = "unreadable"
    \/ in.kind = "transport_error"
    \/ /\ in.kind = "response"
       /\ \/ in.status < 200 \/ in.status > 299
          \/ Unparseable(in.body)
          \/ ZeroEntries(in.body)

\* C10 as stated (SpecExtract): extractTextFromImage fails when the file
\* cannot be read, the transport fails (network, timeout, non-2xx status),
\* the body cannot be parsed or holds no parsed entry, and returns the text
\* of the first parsed entry otherwise.
C10_ExtractContract ==
    pc = "returned" =>
        IF MustFail(ocrIn)
        THEN ocrOut.ok = FALSE
        ELSE /\ ocrOut.ok
             /\ ocrOut.val =
                    (IF ocrIn.body.results.items[1].kind = "text"
                     THEN ocrIn.body.results.items[1].text
                     ELSE <<>>)

\* processFile has put out this line for n.
Logged(n, line) == \E i \in DOMAIN log[n] : log[n][i] = line

\* The pipeline of n has had a stage end with this event.
Traced(n, event) == \E i \in DOMAIN trace[n] : trace[n][i] = event

\* C11 (SpecYaml): every run of processFile puts out a line when the file
\* starts, a line for each failure (of extraction, of generation and of
\* persistence alike) and a line for each successful write of the artifact;
\* a run whose write fails puts out a failure line and no success line.
C11_LogOnEveryOutcome ==
    \A n \in Names :
        /\ Logged(n, LineStart) <=> dispatchCount[n] >= 1
        /\ Logged(n, LineOcrError) <=> Traced(n, ExtractErr)
        /\ Logged(n, LineGenError) <=> Traced(n, GenerateErr)
        /\ Logged(n, LineSaveError) <=> Traced(n, PersistErr)
        /\ Logged(n, LineSaved) <=> Traced(n, PersistOk)

\* C12 (SpecRestart): processedFiles is empty at every process start and
\* nothing of it is kept; the first scan cycle of a process started again
\* dispatches every eligible file of the directory, those the process before
\* had dispatched (with success or not) included.
C12_RestartForgets ==
    /\ [][restarts' # restarts => processedFiles' = {}]_vars
    /\ [](restarts >= 1 /\ FirstCycleOver =>
            \A n \in Names :
                EligibleAmong(stableDir, Len(stableDir), n) =>
                    dispatchCount[n] >= 1)

C12_Witness ==
    /\ restarts = 1
    /\ ListingExhausted
    /\ ~rescanned
    /\ \E n \in Names, m \in Names :
        /\ prevRun[n] = "failed"
        /\ prevRun[m] = "succeeded"
        /\ dispatchCount[n] = 1
        /\ dispatchCount[m] = 1

\* C13 (SpecStableFair): once the entries of a listing are exhausted the loop goes
\* to its idle wait, whatever happened to the files of the cycle, and from
\* the idle wait it goes to the next listing; unless a listing fails, the
\* loop is in a scan and in an idle wait again and again, without end.
C13_LoopAlternates ==
    /\ [][ListingExhausted => pc' = "sleep"]_vars
    /\ [][pc' = "sleep" => ListingExhausted]_vars
    /\ [][pc = "sleep" => pc' = "list"]_vars
    /\ ListingExhausted ~> pc = "sleep"
    /\ pc = "sleep" ~> pc = "list"
    /\ \/ <>(pc = "fatal")
       \/ ([]<>(pc = "scan" /\ idx = 1) /\ []<>(pc = "sleep"))

C13_Witness ==
    /\ pc = "sleep"
    /\ rescanned
    /\ \E n \in Names, m \in Names :
        /\ PipelineFailed(n)
        /\ Traced(m, PersistOk)

\* processFile has been called for n and has not returned.
RunInProgress(n) ==
    /\ dispatchCount[n] >= 1
    /\ ~PipelineFailed(n)
    /\ ~Traced(n, PersistOk)

\* The names with a run in progress.
RunsInProgress == {n \in Names : RunInProgress(n)}

\* C14 (Spec): at most one pipeline run is in progress at any moment; a run
\* starts only when no run is in progress; while a run is in progress the
\* process is inside that run: it lists no directory and does not sleep.
C14_Sequential ==
    /\ [](/\ Cardinality(RunsInProgress) <= 1
          /\ RunsInProgress # {} => (InPipeline /\ RunsInProgress = {cur}))
    /\ [][dispatchCount' # dispatchCount => RunsInProgress = {}]_vars
    /\ [][(pc \in {"list", "sleep"} \/ pc' \in {"list", "sleep"}
                \/ files' # files) => RunsInProgress = {}]_vars

C14_Witness ==
    /\ pc = "extract"
    /\ RunInProgress(cur)
    /\ \E m \in Names :
        /\ m # cur
        /\ dispatchCount[m] >= 1
        /\ ~RunInProgress(m)

\* C15 (Spec): no step takes a name out of processedFiles: a name once
\* marked stays marked, whatever its pipeline did and whether or not the
\* file is listed again.
C15_NoEviction == [][processedFiles \subseteq processedFiles']_vars

\* A marked name whose pipeline failed is still marked at the end of a later
\* cycle whose listing no longer holds it.
C15_Witness ==
    /\ rescanned
    /\ ListingExhausted
    /\ Len(files) >= 1
    /\ \E n \in processedFiles :
        /\ PipelineFailed(n)
        /\ \A i \in DOMAIN files : files[i].name # n

\* The OCR response parses, holds at least one entry, and the text of the
\* first entry is the empty string (a ParsedText that is absent decodes to
\* the empty string).
FirstEntryEmpty(in) ==
    /\ in.kind = "response"
    /\ ~Unparseable(in.body)
    /\ ~ZeroEntries(in.body)
    /\ \/ in.body.results.items[1].kind = "no_text"
       \/ /\ in.body.results.items[1].kind = "text"
          /\ in.body.results.items[1].text = <<>>

\* C16 (SpecRun): when the OCR response holds at least one parsed entry and
\* the text of the first is the empty string, extractTextFromImage returns
\* the empty string with no error, and processFile goes on to
\* getGeminiResponse with the prompt that is the instruction template
\* followed by nothing.
C16_EmptyTextPassesThrough ==
    (FirstEntryEmpty(ocrIn) /\ trace[NameA] # <<>>) =>
        /\ ocrOut = Ok(<<>>)
        /\ trace[NameA][1] = ExtractOk
        /\ Len(trace[NameA]) = 1 => (pc = "generate" /\ text = <<>>)
        /\ Len(trace[NameA]) >= 2 => trace[NameA][2].stage = "generate"
        /\ pc = "persist" =>
              (text = <<>> /\ prompt = <<"instruction GO:", "\n">>)

C16_Witness ==
    /\ FirstEntryEmpty(ocrIn)
    /\ ocrOut = Ok(<<>>)
    /\ pc = "persist"
    /\ cur = NameA
    /\ prompt = <<"instruction GO:", "\n">>
    /\ response = RespX

\* This step ends the run of processFile for n, a run that failed at the
\* extraction or at the generation.
RunEndsFailedEarly(n) ==
    /\ cur = n
    /\ cur' = NoFile
    /\ \E i \in DOMAIN trace'[n] : trace'[n][i] \in {ExtractErr, GenerateErr}

\* C17 as stated (Spec): a run that fails at extraction or at generation
\* leaves the output as it was before the run, and that is what the last
\* successful write left: the response it wrote, or nothing if no write has
\* succeeded.
C17_AsStated ==
    [][\A n \in Names :
          RunEndsFailedEarly(n) =>
              /\ output' = startOutput
              /\ output' = lastWritten']_vars

\* C17 amended (Spec): a run that fails at extraction or at generation
\* leaves the output as it was before the run, whatever that was; up to the
\* end of the generation no run has changed the output.
C17_FailedRunFrame ==
    /\ [](pc \in {"extract", "generate"} => output = startOutput)
    /\ [][\A n \in Names :
            RunEndsFailedEarly(n) => output' = startOutput]_vars

\* A run has failed at the generation and the artifact still holds the
\* response an earlier run wrote.
C17_Witness ==
    /\ pc = "scan"
    /\ \E n \in Names : trace[n] = <<ExtractOk, GenerateErr>>
    /\ \E m \in Names : trace[m] = <<ExtractOk, GenerateOk, PersistOk>>
    /\ output = [f \in {ResultFile} |-> RespYZ]

\* C18 (Spec): the names marked in processedFiles are exactly the names
\* processFile has been called for; a directory and a file without one of
\* the suffixes is never marked, however often it is listed.
C18_MarkedAreStarted ==
    /\ processedFiles = {n \in Names : dispatchCount[n] >= 1}
    /\ \A n \in processedFiles : EligibleEntry(Entry(n, FALSE))
    /\ \A i \in DOMAIN files :
          ~EligibleEntry(files[i]) => files[i].name \notin processedFiles

C18_Witness ==
    /\ rescanned
    /\ ListingExhausted
    /\ files = <<Entry(NameA, FALSE), Entry(NameB, FALSE), Entry(NameE, TRUE)>>
    /\ processedFiles = {NameA}
    /\ dispatchCount[NameA] = 1

=============================================================================
